---- MODULE Spec2Model ----
(***************************************************************************)
(* Token transfer API: the wallets table, the Transfer mutation and the    *)
(* Wallet query of the GraphQL resolvers, run by concurrent workers        *)
(* against one PostgreSQL database (READ COMMITTED transactions,           *)
(* transaction-scoped advisory locks).                                     *)
(*                                                                         *)
(* Balances and amounts are exact decimals with 18 fractional digits.      *)
(* The model counts them in units of 10^-18 (an integer number of the      *)
(* smallest representable amount) and keeps the magnitudes small; the      *)
(* strings that carry them (the amount argument, the text form of a        *)
(* NUMERIC(28,18) column, the returned balance) are sequences of           *)
(* one-character strings and are parsed and printed digit by digit.        *)
(***************************************************************************)
EXTENDS Integers, Sequences, FiniteSets, TLC

\* ------------------------------------------------------------------ bounds
\* Number of concurrently running request workers; each serves one request
\* (a Transfer call or a Wallet query), and workers start in index order.
NumWorkers == 2
\* Largest balance (in units of 10^-18) a wallet is seeded with.
MaxSeedBalance == 2
\* Largest well-formed transfer amount (in units of 10^-18) a caller sends.
MaxAmountUnits == 2

\* ------------------------------------------------------- program constants
\* NUMERIC(28,18): scale and precision of token_balance, as validateTokenAmount
\* checks them.
MaxDecimalPlaces == 18
MaxTotalDigits == 28

\* Longest integer part and longest fraction of the amounts whose validation
\* is checked digit count by digit count.
MaxIntegerDigits == 30
MaxFractionDigits == 20

\* Most calls a sequential caller makes one after the other.
MaxChain == 3

\* ------------------------------------------------------------ addresses
aAddress == "0xA000000000000000000000000000000000000000"
bAddress == "0xB000000000000000000000000000000000000000"
cAddress == "0xC000000000000000000000000000000000000000"
\* aAddress with its hex letter in lower case, and an address that is one
\* character short
smallAAddress == "0xa000000000000000000000000000000000000000"
wrongAddress == "0xa00000000000000000000000000000000000000"
\* the one wallet init.sql seeds both tables with
zeroAddress == "0x0000000000000000000000000000000000000000"

\* The address strings callers pass.  Transfer uses them verbatim as lock
\* input and as row key.
Addresses == {aAddress, bAddress, cAddress}

\* Address strings as they arrive from a caller, in either letter case and
\* of any shape.
RawAddresses == {aAddress, smallAAddress, bAddress, wrongAddress}

Workers == 1..NumWorkers
NoWorker == 0

\* hashAddress is FNV-1 64 of the address bytes, converted to int64 (so keys
\* may be negative).  Its values on the addresses above are represented by a
\* table: the keys of aAddress and bAddress are ordered against the order of
\* the addresses, and bAddress and cAddress collide.  The hash is taken of
\* the bytes as passed, so smallAAddress and wrongAddress have keys of their
\* own.
HashTables ==
    { (aAddress :> 2) @@ (bAddress :> -1) @@ (cAddress :> -1)
        @@ (smallAAddress :> -2) @@ (wrongAddress :> -3) @@ (zeroAddress :> 1) }

LockKeys == UNION { {h[a] : a \in DOMAIN h} : h \in HashTables }

\* ------------------------------------------------------------ error values
NoError == "nil"
ErrInvalidDecimal == "invalid decimal amount"
ErrNonPositive == "amount must be greater than zero"
ErrTooManyDecimals == "too many decimal places: max 18 allowed"
ErrTooManyDigits == "too many digits: max precision is 28"
ErrInsufficient == "insufficient balance"
ErrNoRows == "sql: no rows in result set"
ErrInvalidBalanceFormat == "invalid sender balance format in DB"
ErrInvalidAmountFormat == "invalid transfer amount format"
\* errors raised by the database for a statement
ErrUniqueViolation == "pq: duplicate key value violates unique constraint"
ErrCheckViolation == "pq: new row violates check constraint"
\* any other failure of a database call (connection lost, resources exhausted)
ErrStore == "store error"

\* ------------------------------------------------------- decimal strings
DigitValue ==
    ("0" :> 0) @@ ("1" :> 1) @@ ("2" :> 2) @@ ("3" :> 3) @@ ("4" :> 4) @@
    ("5" :> 5) @@ ("6" :> 6) @@ ("7" :> 7) @@ ("8" :> 8) @@ ("9" :> 9)

DigitChar == <<"0", "1", "2", "3", "4", "5", "6", "7", "8", "9">>

IsDigit(c) == c \in DOMAIN DigitValue

RECURSIVE Zeros(_)
Zeros(n) == IF n <= 0 THEN <<>> ELSE <<"0">> \o Zeros(n - 1)

RECURSIVE StripLeadingZeros(_)
\* text of a big.Int built from a digit string: no leading zeros, "0" for zero
StripLeadingZeros(ds) ==
    IF Len(ds) <= 1 THEN ds
    ELSE IF ds[1] = "0" THEN StripLeadingZeros(Tail(ds)) ELSE ds

RECURSIVE DigitsValue(_)
DigitsValue(ds) ==
    IF ds = <<>> THEN 0
    ELSE 10 * DigitsValue(SubSeq(ds, 1, Len(ds) - 1)) + DigitValue[ds[Len(ds)]]

RECURSIVE IntToDigits(_)
IntToDigits(n) ==
    IF n < 10 THEN <<DigitChar[n + 1]>>
    ELSE IntToDigits(n \div 10) \o <<DigitChar[(n % 10) + 1]>>

RECURSIVE Pow10(_)
Pow10(k) == IF k <= 0 THEN 1 ELSE 10 * Pow10(k - 1)

\* decimal.NewFromString on strings over digits, '.', '+', '-' and other
\* letters (no exponent notation): at most one '.', an optional sign, at
\* least one digit.  The result is the coefficient (sign and digit text) and
\* the exponent -(number of digits after the point).
NewFromString(value) ==
    LET dots == {i \in 1..Len(value) : value[i] = "."}
        p == IF dots = {} THEN 0 ELSE CHOOSE i \in dots : TRUE
        intString == IF p = 0 THEN value
                     ELSE SubSeq(value, 1, p - 1) \o SubSeq(value, p + 1, Len(value))
        exponent == IF p = 0 THEN 0 ELSE 0 - (Len(value) - p)
        signed == intString # <<>> /\ intString[1] \in {"+", "-"}
        body == IF signed THEN Tail(intString) ELSE intString
        wellFormed == /\ Cardinality(dots) <= 1
                      /\ body # <<>>
                      /\ \A i \in 1..Len(body) : IsDigit(body[i])
        digits == StripLeadingZeros(body)
        sign == IF digits = <<"0">> THEN 0
                ELSE IF signed /\ intString[1] = "-" THEN -1 ELSE 1
    IN  IF wellFormed
        THEN [ok |-> TRUE, sign |-> sign, digits |-> digits, exp |-> exponent]
        ELSE [ok |-> FALSE, sign |-> 0, digits |-> <<"0">>, exp |-> 0]

\* len(coeff.String()): the digits of the coefficient, and its '-' sign
CoefficientTextLen(d) == Len(d.digits) + (IF d.sign < 0 THEN 1 ELSE 0)

\* the sign check letting zero through
validateTokenAmountZeroAllowed(amount) ==
    LET amountDecimal == NewFromString(amount)
    IN  IF ~amountDecimal.ok THEN ErrInvalidDecimal
        ELSE IF amountDecimal.sign < 0 THEN ErrNonPositive
        ELSE IF amountDecimal.exp < 0 - MaxDecimalPlaces THEN ErrTooManyDecimals
        ELSE IF CoefficientTextLen(amountDecimal) > MaxTotalDigits THEN ErrTooManyDigits
        ELSE NoError

\* the two limits taken one too low
validateTokenAmountLimitsExclusive(amount) ==
    LET amountDecimal == NewFromString(amount)
    IN  IF ~amountDecimal.ok THEN ErrInvalidDecimal
        ELSE IF amountDecimal.sign <= 0 THEN ErrNonPositive
        ELSE IF amountDecimal.exp <= 0 - MaxDecimalPlaces THEN ErrTooManyDecimals
        ELSE IF CoefficientTextLen(amountDecimal) >= MaxTotalDigits THEN ErrTooManyDigits
        ELSE NoError

\* the digit count checked before the decimal places, and the sign last
validateTokenAmountDigitsFirst(amount) ==
    LET amountDecimal == NewFromString(amount)
    IN  IF ~amountDecimal.ok THEN ErrInvalidDecimal
        ELSE IF CoefficientTextLen(amountDecimal) > MaxTotalDigits THEN ErrTooManyDigits
        ELSE IF amountDecimal.exp < 0 - MaxDecimalPlaces THEN ErrTooManyDecimals
        ELSE IF amountDecimal.sign <= 0 THEN ErrNonPositive
        ELSE NoError

validateTokenAmount(amount) ==
    LET amountDecimal == NewFromString(amount)
    IN  IF ~amountDecimal.ok THEN ErrInvalidDecimal
        ELSE IF amountDecimal.sign <= 0 THEN ErrNonPositive
        ELSE IF amountDecimal.exp < 0 - MaxDecimalPlaces THEN ErrTooManyDecimals
        ELSE IF CoefficientTextLen(amountDecimal) > MaxTotalDigits THEN ErrTooManyDigits
        ELSE NoError

\* big.Rat.SetString on a decimal string: whether it parses
RatParses(s) == NewFromString(s).ok

\* big.Rat.SetString on a decimal string with at most 18 fractional digits:
\* its exact value, in units of 10^-18
RatSetString(s) ==
    LET d == NewFromString(s)
    IN  d.sign * DigitsValue(d.digits) * Pow10(d.exp + MaxDecimalPlaces)

\* text of a NUMERIC(28,18) value, and big.Rat.FloatString(18): the integer
\* part, '.', and 18 fractional digits, zero padded.  Values of the model are
\* below one token, so the integer part is "0".
FloatString18(units) ==
    LET ds == IntToDigits(IF units < 0 THEN 0 - units ELSE units)
    IN  (IF units < 0 THEN <<"-">> ELSE <<>>) \o
        <<"0", ".">> \o Zeros(MaxDecimalPlaces - Len(ds)) \o ds

\* the amount strings callers send: k units of 10^-18 written in full
\* ("0.000000000000000001" is one unit), zero, and a string that is no number
AmountString(k) == FloatString18(k)

InvalidAmountStrings == { <<"0">>, <<"a", "b", "c", "1", "2", "3">> }

AmountInputs == {AmountString(k) : k \in 1..MaxAmountUnits} \cup InvalidAmountStrings

\* ---------------------------------------------------------------- state
VARIABLES
    wallets,        \* committed rows of the wallets table: address -> token_balance
    lockHolder,     \* advisory lock key -> the worker whose transaction holds it
    pc,             \* worker -> where its Transfer call stands
    call,           \* worker -> arguments of its Transfer call
    txWrites,       \* worker -> rows its open transaction has written, uncommitted
    senderBalance,  \* worker -> the sender balance its running call parsed (big.Rat)
    result,         \* worker -> what its call returned: (string, error)
    walletReply,    \* worker -> what its Wallet query returned
    hashTable,      \* values of hashAddress on the addresses
    seeded,         \* the rows the table was seeded with (never changes)
    overlapped,     \* worker -> its call started while another call was in flight
    ctxDone,        \* worker -> the caller has cancelled the ctx of its call
    walletTable,    \* the resolver's WalletTable field
    testWallets,    \* committed rows of the test_wallets table
    history         \* the calls a sequential caller has made, with their returns

vars == <<wallets, lockHolder, pc, call, txWrites, senderBalance, result,
          walletReply, hashTable, seeded, overlapped, ctxDone, walletTable,
          testWallets, history>>

\* What no statement of Transfer or Wallet reads or writes: the ctx argument,
\* the WalletTable field, the test_wallets table, and the caller's own record
\* of its calls.
unused == <<ctxDone, walletTable, testWallets, history>>

NoRows == [a \in {} |-> 0]
NoReply == [address |-> "", balance |-> <<>>, err |-> "none"]
NoCall == [from |-> "", to |-> "", amount |-> <<>>]
NoResult == [value |-> <<>>, err |-> "pending"]

\* the table created without its CHECK constraint
TokenBalanceCheckDropped(balance) == TRUE

\* CHECK (token_balance >= 0) of the wallets table
TokenBalanceCheck(balance) == balance >= 0

\* Every table content the seeding INSERTs can leave when the workers start
\* (the tests seed one or two wallets; every other address appears by a
\* transfer): a funded wallet at aAddress and possibly a wallet at bAddress.
\* The table's CHECK constraint is what rejects a negative seed.
SeedLedgers ==
    { f \in UNION { [S -> -1..MaxSeedBalance] : S \in {{aAddress}, {aAddress, bAddress}} } :
        /\ \A a \in DOMAIN f : TokenBalanceCheck(f[a])
        /\ f[aAddress] # 0 }

InFlight == {"begin", "validate", "lock1", "lock2", "readSender", "readRecipient",
             "addWallet", "debit", "credit", "commit"}
\* the positions at which the call is inside a database round trip
InDatabaseCall == InFlight \ {"validate"}
Terminal == {"done", "failed"}

\* The server's resolver names the table "wallets"; no ctx is cancelled, the
\* test table is empty (clearWallets) and no call has been made.
UnusedInit ==
    /\ ctxDone = [t \in Workers |-> FALSE]
    /\ walletTable = "wallets"
    /\ testWallets = NoRows
    /\ history = <<>>

Init ==
    /\ wallets \in SeedLedgers
    /\ seeded = wallets
    /\ hashTable \in HashTables
    /\ lockHolder = [k \in LockKeys |-> NoWorker]
    /\ pc = [t \in Workers |-> "idle"]
    /\ call = [t \in Workers |-> NoCall]
    /\ txWrites = [t \in Workers |-> NoRows]
    /\ senderBalance = [t \in Workers |-> 0]
    /\ result = [t \in Workers |-> NoResult]
    /\ overlapped = [t \in Workers |-> FALSE]
    /\ walletReply = [t \in Workers |-> NoReply]
    /\ UnusedInit

\* ------------------------------------------------------------ the database
hashAddress(address) == hashTable[address]

\* the two keys locked sender first, whatever their order
lockWalletsSenderFirst(fromAddress, toAddress) ==
    <<hashTable[fromAddress], hashTable[toAddress]>>

\* The keys lockWallets locks, in the order it locks them.
lockWallets(fromAddress, toAddress) ==
    LET senderHash == hashAddress(fromAddress)
        recipientHash == hashAddress(toAddress)
    IN  IF senderHash < recipientHash
        THEN <<senderHash, recipientHash>>
        ELSE <<recipientHash, senderHash>>

\* The addresses whose keys lockWallets locks, in the order it locks them:
\* the sender's first only when its key is the lower one.
lockWalletsAddresses(fromAddress, toAddress) ==
    LET senderHash == hashAddress(fromAddress)
        recipientHash == hashAddress(toAddress)
    IN  IF senderHash < recipientHash
        THEN <<fromAddress, toAddress>>
        ELSE <<toAddress, fromAddress>>

\* a lock that the transaction holding it cannot take again
LockNotReentrant(t, key) == lockHolder[key] = NoWorker

\* a lock request that returns without waiting for the holder
LockNeverWaits(t, key) == TRUE

\* pg_advisory_xact_lock: granted when no other session holds the key (a
\* session may take a key it already holds); otherwise the statement waits.
LockGranted(t, key) == lockHolder[key] \in {NoWorker, t}

\* the end of the transaction leaving its advisory locks held
ReleaseNothing(t) == lockHolder

\* Advisory transaction locks are released when the transaction ends.
ReleaseLocks(t) == [k \in LockKeys |-> IF lockHolder[k] = t THEN NoWorker ELSE lockHolder[k]]

\* READ COMMITTED: a statement of transaction t sees the committed rows and
\* the rows t itself has written.
Visible(t) ==
    [a \in DOMAIN wallets \cup DOMAIN txWrites[t] |->
        IF a \in DOMAIN txWrites[t] THEN txWrites[t][a] ELSE wallets[a]]

\* A row another open transaction has written is locked until that
\* transaction ends: an UPDATE of it, or an INSERT of the same key, waits.
WrittenByOther(t, address) ==
    \E u \in Workers \ {t} : address \in DOMAIN txWrites[u]

WithRow(rows, address, balance) ==
    [a \in DOMAIN rows \cup {address} |-> IF a = address THEN balance ELSE rows[a]]

\* $1::numeric of the amount string
NumericCast(amount) == RatSetString(amount)

\* the second UPDATE leaving the recipient's balance as it was
CreditLost(balance, amount) == balance

\* token_balance - $1::numeric and token_balance + $1::numeric
DebitedBalance(balance, amount) == balance - NumericCast(amount)
CreditedBalance(balance, amount) == balance + NumericCast(amount)

\* tx.Commit(): the transaction's rows become the committed rows.
CommitLedger(t) ==
    [a \in DOMAIN wallets \cup DOMAIN txWrites[t] |->
        IF a \in DOMAIN txWrites[t] THEN txWrites[t][a] ELSE wallets[a]]

\* the deferred call committing the transaction instead of rolling it back
RollbackCommits(t) == CommitLedger(t)

\* tx.Rollback(): the transaction's rows are discarded.
RollbackLedger(t) == wallets

\* the sufficiency check refusing a transfer of the whole balance
InsufficientOrEqual(balance, transferAmount) == balance <= transferAmount

\* senderBalance.Cmp(transferAmount) < 0
InsufficientBalance(balance, transferAmount) == balance < transferAmount

\* a missing row read as a zero balance, without an error
getTokenBalanceDefaultsZero(t, address) ==
    IF address \in DOMAIN Visible(t)
    THEN [balance |-> FloatString18(Visible(t)[address]), err |-> NoError]
    ELSE [balance |-> FloatString18(0), err |-> NoError]

\* getTokenBalance: SELECT token_balance FROM wallets WHERE address = $1,
\* scanned into a string; sql.ErrNoRows when no row matches
getTokenBalance(t, address) ==
    IF address \in DOMAIN Visible(t)
    THEN [balance |-> FloatString18(Visible(t)[address]), err |-> NoError]
    ELSE [balance |-> <<>>, err |-> ErrNoRows]

\* --------------------------------------------------------------- Transfer
\* return "", err with the deferred tx.Rollback()
ReturnError(t, err) ==
    /\ pc' = [pc EXCEPT ![t] = "failed"]
    /\ result' = [result EXCEPT ![t] = [value |-> <<>>, err |-> err]]
    /\ wallets' = RollbackLedger(t)
    /\ txWrites' = [txWrites EXCEPT ![t] = NoRows]
    /\ lockHolder' = ReleaseLocks(t)
    /\ senderBalance' = [senderBalance EXCEPT ![t] = 0]

Goto(t, next) ==
    /\ pc' = [pc EXCEPT ![t] = next]
    /\ UNCHANGED <<result, wallets>>

\* A caller invokes Transfer(ctx, fromAddress, toAddress, amount).
Call(t, fromAddress, toAddress, amount) ==
    /\ pc[t] = "idle"
    /\ \A u \in Workers : u < t => pc[u] # "idle"
    /\ call' = [call EXCEPT ![t] =
                    [from |-> fromAddress, to |-> toAddress, amount |-> amount]]
    /\ overlapped' = [overlapped EXCEPT ![t] = \E u \in Workers : pc[u] \in InFlight]
    /\ Goto(t, "begin")
    /\ UNCHANGED <<walletReply, lockHolder, txWrites, senderBalance, hashTable, seeded, unused>>

\* tx, err := r.DB.Begin()
Begin(t) ==
    /\ pc[t] = "begin"
    /\ Goto(t, "validate")
    /\ UNCHANGED <<walletReply, lockHolder, call, txWrites, senderBalance, hashTable, seeded, unused, overlapped>>

\* a Transfer that reads the sender right after validation, without locking
ValidateSkipsLocking(t) ==
    /\ pc[t] = "validate"
    /\ LET err == validateTokenAmount(call[t].amount)
       IN  IF err # NoError
           THEN ReturnError(t, err)
           ELSE Goto(t, "readSender") /\ UNCHANGED <<txWrites, lockHolder, senderBalance>>
    /\ UNCHANGED <<call, walletReply, hashTable, seeded, unused, overlapped>>

\* validateTokenAmount(amount), inside the open transaction
Validate(t) ==
    /\ pc[t] = "validate"
    /\ LET err == validateTokenAmount(call[t].amount)
       IN  IF err # NoError
           THEN ReturnError(t, err)
           ELSE Goto(t, "lock1") /\ UNCHANGED <<txWrites, lockHolder, senderBalance>>
    /\ UNCHANGED <<call, walletReply, hashTable, seeded, unused, overlapped>>

\* lockWallets: the first pg_advisory_xact_lock
LockFirst(t) ==
    /\ pc[t] = "lock1"
    /\ LET key == lockWallets(call[t].from, call[t].to)[1]
       IN  /\ LockGranted(t, key)
           /\ lockHolder' = [lockHolder EXCEPT ![key] = t]
    /\ Goto(t, "lock2")
    /\ UNCHANGED <<walletReply, call, txWrites, senderBalance, hashTable, seeded, unused, overlapped>>

\* lockWallets: the second pg_advisory_xact_lock
LockSecond(t) ==
    /\ pc[t] = "lock2"
    /\ LET key == lockWallets(call[t].from, call[t].to)[2]
       IN  /\ LockGranted(t, key)
           /\ lockHolder' = [lockHolder EXCEPT ![key] = t]
    /\ Goto(t, "readSender")
    /\ UNCHANGED <<walletReply, call, txWrites, senderBalance, hashTable, seeded, unused, overlapped>>

\* getTokenBalance(tx, fromAddress), the two big.Rat parses and the
\* sufficiency check
ReadSender(t) ==
    /\ pc[t] = "readSender"
    /\ LET got == getTokenBalance(t, call[t].from)
       IN  IF got.err # NoError
           THEN ReturnError(t, got.err)
           ELSE LET senderBalanceStr == got.balance
                    balance == RatSetString(senderBalanceStr)
                    transferAmount == RatSetString(call[t].amount)
                IN  IF ~RatParses(senderBalanceStr)
                    THEN ReturnError(t, ErrInvalidBalanceFormat)
                    ELSE IF ~RatParses(call[t].amount)
                    THEN ReturnError(t, ErrInvalidAmountFormat)
                    ELSE IF InsufficientBalance(balance, transferAmount)
                    THEN ReturnError(t, ErrInsufficient)
                    ELSE /\ senderBalance' = [senderBalance EXCEPT ![t] = balance]
                         /\ Goto(t, "readRecipient")
                         /\ UNCHANGED <<txWrites, lockHolder>>
    /\ UNCHANGED <<call, walletReply, hashTable, seeded, unused, overlapped>>

\* getTokenBalance(tx, toAddress): does the recipient row exist
ReadRecipient(t) ==
    /\ pc[t] = "readRecipient"
    /\ IF getTokenBalance(t, call[t].to).err = ErrNoRows
       THEN Goto(t, "addWallet")
       ELSE Goto(t, "debit")
    /\ UNCHANGED <<walletReply, lockHolder, call, txWrites, senderBalance, hashTable, seeded, unused, overlapped>>

\* addWallet: INSERT INTO wallets (address, token_balance) VALUES ($1, 0)
\* the INSERT of the recipient row left out
AddWalletSkipped(t) ==
    /\ pc[t] = "addWallet"
    /\ Goto(t, "debit")
    /\ UNCHANGED <<txWrites, lockHolder, senderBalance>>
    /\ UNCHANGED <<call, walletReply, hashTable, seeded, unused, overlapped>>

AddWallet(t) ==
    /\ pc[t] = "addWallet"
    /\ LET toAddress == call[t].to
       IN  IF toAddress \in DOMAIN Visible(t)
           THEN ReturnError(t, ErrUniqueViolation)
           ELSE /\ ~WrittenByOther(t, toAddress)
                /\ txWrites' = [txWrites EXCEPT ![t] = WithRow(txWrites[t], toAddress, 0)]
                /\ Goto(t, "debit")
                /\ UNCHANGED <<lockHolder, senderBalance>>
    /\ UNCHANGED <<call, walletReply, hashTable, seeded, unused, overlapped>>

\* One UPDATE wallets SET token_balance = <newBalance> WHERE address = $2 of
\* transaction t: it waits while another transaction holds the row, changes
\* nothing when no row matches, and fails on the CHECK constraint.
UpdateRow(t, address, newBalance, next) ==
    LET rows == Visible(t)
    IN  IF address \notin DOMAIN rows
        THEN Goto(t, next) /\ UNCHANGED <<txWrites, lockHolder, senderBalance>>
        ELSE /\ ~WrittenByOther(t, address)
             /\ IF TokenBalanceCheck(newBalance)
                THEN /\ txWrites' = [txWrites EXCEPT ![t] = WithRow(txWrites[t], address, newBalance)]
                     /\ Goto(t, next)
                     /\ UNCHANGED <<lockHolder, senderBalance>>
                ELSE ReturnError(t, ErrCheckViolation)

\* updateBalances: the UPDATE of the sender row
Debit(t) ==
    /\ pc[t] = "debit"
    /\ LET fromAddress == call[t].from
           rows == Visible(t)
           newBalance == IF fromAddress \in DOMAIN rows
                         THEN DebitedBalance(rows[fromAddress], call[t].amount) ELSE 0
       IN  UpdateRow(t, fromAddress, newBalance, "credit")
    /\ UNCHANGED <<call, walletReply, hashTable, seeded, unused, overlapped>>

\* updateBalances: the UPDATE of the recipient row
Credit(t) ==
    /\ pc[t] = "credit"
    /\ LET toAddress == call[t].to
           rows == Visible(t)
           newBalance == IF toAddress \in DOMAIN rows
                         THEN CreditedBalance(rows[toAddress], call[t].amount) ELSE 0
       IN  UpdateRow(t, toAddress, newBalance, "commit")
    /\ UNCHANGED <<call, walletReply, hashTable, seeded, unused, overlapped>>

\* tx.Commit(), then return newSenderBalance.FloatString(18), nil
Commit(t) ==
    /\ pc[t] = "commit"
    /\ wallets' = CommitLedger(t)
    /\ txWrites' = [txWrites EXCEPT ![t] = NoRows]
    /\ lockHolder' = ReleaseLocks(t)
    /\ pc' = [pc EXCEPT ![t] = "done"]
    /\ LET transferAmount == RatSetString(call[t].amount)
           newSenderBalance == senderBalance[t] - transferAmount
       IN  result' = [result EXCEPT ![t] =
                        [value |-> FloatString18(newSenderBalance), err |-> NoError]]
    /\ senderBalance' = [senderBalance EXCEPT ![t] = 0]
    /\ UNCHANGED <<call, walletReply, hashTable, seeded, unused, overlapped>>

\* A database call of the transfer (Begin, a lock request, a SELECT, the
\* INSERT, an UPDATE, Commit) fails for a reason of the store itself; the
\* call returns that error and the deferred Rollback ends the transaction.
StoreFailure(t) ==
    /\ pc[t] \in InDatabaseCall
    /\ ReturnError(t, ErrStore)
    /\ UNCHANGED <<call, walletReply, hashTable, seeded, unused, overlapped>>

\* ----------------------------------------------------------------- Wallet
\* SELECT address, token_balance FROM wallets WHERE address = $1, outside
\* any transaction: it reads the committed rows and takes no lock.
\* the query answering a missing row with a zero balance
WalletAnswersZero(t, address) ==
    /\ pc[t] = "idle"
    /\ \A u \in Workers : u < t => pc[u] # "idle"
    /\ pc' = [pc EXCEPT ![t] = "answered"]
    /\ walletReply' = [walletReply EXCEPT ![t] =
          [address |-> address,
           balance |-> FloatString18(IF address \in DOMAIN wallets THEN wallets[address] ELSE 0),
           err |-> NoError]]
    /\ UNCHANGED <<wallets, lockHolder, call, txWrites, senderBalance, result,
                   hashTable, seeded, overlapped, unused>>

\* the query inserting the row it did not find
WalletCreatesRow(t, address) ==
    /\ pc[t] = "idle"
    /\ \A u \in Workers : u < t => pc[u] # "idle"
    /\ pc' = [pc EXCEPT ![t] = "answered"]
    /\ walletReply' = [walletReply EXCEPT ![t] =
          IF address \in DOMAIN wallets
          THEN [address |-> address, balance |-> FloatString18(wallets[address]),
                err |-> NoError]
          ELSE [address |-> "", balance |-> <<>>, err |-> ErrNoRows]]
    /\ wallets' = IF address \in DOMAIN wallets THEN wallets ELSE WithRow(wallets, address, 0)
    /\ UNCHANGED <<lockHolder, call, txWrites, senderBalance, result,
                   hashTable, seeded, overlapped, unused>>

\* the query reading the rows open transactions have written (a dirty read)
WalletReadsUncommitted(t, address) ==
    /\ pc[t] = "idle"
    /\ \A u \in Workers : u < t => pc[u] # "idle"
    /\ pc' = [pc EXCEPT ![t] = "answered"]
    /\ walletReply' = [walletReply EXCEPT ![t] =
          LET writers == {u \in Workers : address \in DOMAIN txWrites[u]}
          IN  IF writers # {}
              THEN [address |-> address,
                    balance |-> FloatString18(txWrites[CHOOSE u \in writers : TRUE][address]),
                    err |-> NoError]
              ELSE IF address \in DOMAIN wallets
              THEN [address |-> address, balance |-> FloatString18(wallets[address]),
                    err |-> NoError]
              ELSE [address |-> "", balance |-> <<>>, err |-> ErrNoRows]]
    /\ UNCHANGED <<wallets, lockHolder, call, txWrites, senderBalance, result,
                   hashTable, seeded, overlapped, unused>>

\* the query taking the advisory lock of the address before it reads
WalletWaitsForLock(t, address) ==
    /\ pc[t] = "idle"
    /\ \A u \in Workers : u < t => pc[u] # "idle"
    /\ LockGranted(t, hashAddress(address))
    /\ pc' = [pc EXCEPT ![t] = "answered"]
    /\ walletReply' = [walletReply EXCEPT ![t] =
          IF address \in DOMAIN wallets
          THEN [address |-> address, balance |-> FloatString18(wallets[address]),
                err |-> NoError]
          ELSE [address |-> "", balance |-> <<>>, err |-> ErrNoRows]]
    /\ UNCHANGED <<wallets, lockHolder, call, txWrites, senderBalance, result,
                   hashTable, seeded, overlapped, unused>>

Wallet(t, address) ==
    /\ pc[t] = "idle"
    /\ \A u \in Workers : u < t => pc[u] # "idle"
    /\ pc' = [pc EXCEPT ![t] = "answered"]
    /\ walletReply' = [walletReply EXCEPT ![t] =
          IF address \in DOMAIN wallets
          THEN [address |-> address, balance |-> FloatString18(wallets[address]),
                err |-> NoError]
          ELSE [address |-> "", balance |-> <<>>, err |-> ErrNoRows]]
    /\ UNCHANGED <<wallets, lockHolder, call, txWrites, senderBalance, result,
                   hashTable, seeded, overlapped, unused>>

\* ------------------------------------------------------------------- Next
Next ==
    \/ \E t \in Workers, fromAddress \in Addresses, toAddress \in Addresses,
          amount \in AmountInputs : Call(t, fromAddress, toAddress, amount)
    \/ \E t \in Workers : Begin(t)
    \/ \E t \in Workers : Validate(t)
    \/ \E t \in Workers : LockFirst(t)
    \/ \E t \in Workers : LockSecond(t)
    \/ \E t \in Workers : ReadSender(t)
    \/ \E t \in Workers : ReadRecipient(t)
    \/ \E t \in Workers : AddWallet(t)
    \/ \E t \in Workers : Debit(t)
    \/ \E t \in Workers : Credit(t)
    \/ \E t \in Workers : Commit(t)
    \/ \E t \in Workers : StoreFailure(t)
    \/ \E t \in Workers, address \in Addresses : Wallet(t, address)

Spec == Init /\ [][Next]_vars

\* The same operations, called with address strings as they arrive and one
\* amount.
RawAmounts == {AmountString(1)}

RawNext ==
    \/ \E t \in Workers, fromAddress \in RawAddresses, toAddress \in RawAddresses,
          amount \in RawAmounts : Call(t, fromAddress, toAddress, amount)
    \/ \E t \in Workers : Begin(t)
    \/ \E t \in Workers : Validate(t)
    \/ \E t \in Workers : LockFirst(t)
    \/ \E t \in Workers : LockSecond(t)
    \/ \E t \in Workers : ReadSender(t)
    \/ \E t \in Workers : ReadRecipient(t)
    \/ \E t \in Workers : AddWallet(t)
    \/ \E t \in Workers : Debit(t)
    \/ \E t \in Workers : Credit(t)
    \/ \E t \in Workers : Commit(t)
    \/ \E t \in Workers : StoreFailure(t)
    \/ \E t \in Workers, address \in RawAddresses : Wallet(t, address)

RawSpec == Init /\ [][RawNext]_vars

\* The same operations between aAddress and bAddress, called with amounts
\* that are negative, zero or no number, and with one valid amount.
NonPositiveAmounts == { <<"-", "1", "2">>, <<"0">>, <<"0", ".", "0">> }
UnparsableAmounts == { <<"a", "b", "c", "1", "2", "3">>, <<"1", ".", "2", ".", "3">>, <<>> }
CheckedAmounts == NonPositiveAmounts \cup UnparsableAmounts \cup {AmountString(1)}

AmountNext ==
    \/ \E t \in Workers, fromAddress \in {aAddress, bAddress},
          toAddress \in {aAddress, bAddress}, amount \in CheckedAmounts :
            Call(t, fromAddress, toAddress, amount)
    \/ \E t \in Workers : Begin(t)
    \/ \E t \in Workers : Validate(t)
    \/ \E t \in Workers : LockFirst(t)
    \/ \E t \in Workers : LockSecond(t)
    \/ \E t \in Workers : ReadSender(t)
    \/ \E t \in Workers : ReadRecipient(t)
    \/ \E t \in Workers : AddWallet(t)
    \/ \E t \in Workers : Debit(t)
    \/ \E t \in Workers : Credit(t)
    \/ \E t \in Workers : Commit(t)
    \/ \E t \in Workers : StoreFailure(t)
    \/ \E t \in Workers, address \in {aAddress, bAddress} : Wallet(t, address)

AmountSpec == Init /\ [][AmountNext]_vars

\* The caller cancels the ctx it passed to a Transfer that has not returned.
\* Transfer uses r.DB.Begin, tx.Exec and tx.QueryRow, none of which takes the
\* ctx, so nothing but the ctx itself changes.
Cancel(t) ==
    /\ pc[t] \in InFlight
    /\ ~ctxDone[t]
    /\ ctxDone' = [ctxDone EXCEPT ![t] = TRUE]
    /\ UNCHANGED <<wallets, lockHolder, pc, call, txWrites, senderBalance, result,
                   walletReply, hashTable, seeded, overlapped, walletTable,
                   testWallets, history>>

\* Transfers of one amount from aAddress to bAddress or back, whose caller
\* may cancel them.
CancelNext ==
    \/ \E t \in Workers, fromAddress \in {aAddress, bAddress} :
          \E toAddress \in {aAddress, bAddress} \ {fromAddress} :
            Call(t, fromAddress, toAddress, AmountString(1))
    \/ \E t \in Workers : Begin(t)
    \/ \E t \in Workers : Validate(t)
    \/ \E t \in Workers : LockFirst(t)
    \/ \E t \in Workers : LockSecond(t)
    \/ \E t \in Workers : ReadSender(t)
    \/ \E t \in Workers : ReadRecipient(t)
    \/ \E t \in Workers : AddWallet(t)
    \/ \E t \in Workers : Debit(t)
    \/ \E t \in Workers : Credit(t)
    \/ \E t \in Workers : Commit(t)
    \/ \E t \in Workers : StoreFailure(t)
    \/ \E t \in Workers : Cancel(t)

CancelSpec == Init /\ [][CancelNext]_vars

\* A resolver configured the way the tests configure it, WalletTable:
\* "test_wallets": the tests' seed rows are in test_wallets, and the wallets
\* table holds the wallet init.sql seeds it with.
TableInit ==
    /\ walletTable = "test_wallets"
    /\ testWallets \in SeedLedgers
    /\ wallets \in {(zeroAddress :> k) : k \in 1..MaxSeedBalance}
    /\ seeded = wallets
    /\ hashTable \in HashTables
    /\ lockHolder = [k \in LockKeys |-> NoWorker]
    /\ pc = [t \in Workers |-> "idle"]
    /\ call = [t \in Workers |-> NoCall]
    /\ txWrites = [t \in Workers |-> NoRows]
    /\ senderBalance = [t \in Workers |-> 0]
    /\ result = [t \in Workers |-> NoResult]
    /\ overlapped = [t \in Workers |-> FALSE]
    /\ walletReply = [t \in Workers |-> NoReply]
    /\ ctxDone = [t \in Workers |-> FALSE]
    /\ history = <<>>

TableAddresses == {zeroAddress, aAddress, bAddress}

TableNext ==
    \/ \E t \in Workers, fromAddress \in TableAddresses :
          \E toAddress \in TableAddresses \ {fromAddress} :
            Call(t, fromAddress, toAddress, AmountString(1))
    \/ \E t \in Workers : Begin(t)
    \/ \E t \in Workers : Validate(t)
    \/ \E t \in Workers : LockFirst(t)
    \/ \E t \in Workers : LockSecond(t)
    \/ \E t \in Workers : ReadSender(t)
    \/ \E t \in Workers : ReadRecipient(t)
    \/ \E t \in Workers : AddWallet(t)
    \/ \E t \in Workers : Debit(t)
    \/ \E t \in Workers : Credit(t)
    \/ \E t \in Workers : Commit(t)
    \/ \E t \in Workers : StoreFailure(t)
    \/ \E t \in Workers, address \in TableAddresses : Wallet(t, address)

TableSpec == TableInit /\ [][TableNext]_vars

\* The caller takes the return of its call, notes the call and what it
\* returned, and is ready to make its next call (the tests' doTransfer calls,
\* one after the other).
Return(t) ==
    /\ pc[t] \in Terminal
    /\ Len(history) < MaxChain
    /\ history' = Append(history, [from |-> call[t].from, to |-> call[t].to,
                                   amount |-> call[t].amount, err |-> result[t].err])
    /\ pc' = [pc EXCEPT ![t] = "idle"]
    /\ call' = [call EXCEPT ![t] = NoCall]
    /\ result' = [result EXCEPT ![t] = NoResult]
    /\ UNCHANGED <<wallets, lockHolder, txWrites, senderBalance, walletReply,
                   hashTable, seeded, overlapped, ctxDone, walletTable, testWallets>>

\* One caller making transfers one after the other, against a store that
\* answers every statement.
ChainNext ==
    \/ \E fromAddress \in Addresses :
          \E toAddress \in Addresses \ {fromAddress}, k \in 1..MaxAmountUnits :
            Call(1, fromAddress, toAddress, AmountString(k))
    \/ \E t \in Workers : Begin(t)
    \/ \E t \in Workers : Validate(t)
    \/ \E t \in Workers : LockFirst(t)
    \/ \E t \in Workers : LockSecond(t)
    \/ \E t \in Workers : ReadSender(t)
    \/ \E t \in Workers : ReadRecipient(t)
    \/ \E t \in Workers : AddWallet(t)
    \/ \E t \in Workers : Debit(t)
    \/ \E t \in Workers : Credit(t)
    \/ \E t \in Workers : Commit(t)
    \/ \E t \in Workers : Return(t)

ChainSpec == Init /\ [][ChainNext]_vars

\* -------------------------------------------------- colliding lock keys
\* hashAddress maps 42-character strings to 64 bits, so distinct addresses
\* can have one key.  Every way the three addresses can share keys: with
\* three addresses and two key values each assignment has a collision, and
\* lockWallets depends on the keys only through their order.
CollisionKeys == {-1, 2}

CollidingHashTables ==
    { [a \in DOMAIN h |-> IF a \in Addresses THEN f[a] ELSE h[a]] :
        f \in [Addresses -> CollisionKeys], h \in HashTables }

CollisionInit ==
    /\ wallets \in SeedLedgers
    /\ seeded = wallets
    /\ hashTable \in CollidingHashTables
    /\ lockHolder = [k \in LockKeys |-> NoWorker]
    /\ pc = [t \in Workers |-> "idle"]
    /\ call = [t \in Workers |-> NoCall]
    /\ txWrites = [t \in Workers |-> NoRows]
    /\ senderBalance = [t \in Workers |-> 0]
    /\ result = [t \in Workers |-> NoResult]
    /\ overlapped = [t \in Workers |-> FALSE]
    /\ walletReply = [t \in Workers |-> NoReply]
    /\ UnusedInit

\* Concurrent transfers of valid amounts against a store that answers every
\* statement.
CollisionNext ==
    \/ \E t \in Workers, fromAddress \in Addresses, toAddress \in Addresses,
          k \in 1..MaxAmountUnits : Call(t, fromAddress, toAddress, AmountString(k))
    \/ \E t \in Workers : Begin(t)
    \/ \E t \in Workers : Validate(t)
    \/ \E t \in Workers : LockFirst(t)
    \/ \E t \in Workers : LockSecond(t)
    \/ \E t \in Workers : ReadSender(t)
    \/ \E t \in Workers : ReadRecipient(t)
    \/ \E t \in Workers : AddWallet(t)
    \/ \E t \in Workers : Debit(t)
    \/ \E t \in Workers : Credit(t)
    \/ \E t \in Workers : Commit(t)

CollisionSpec == CollisionInit /\ [][CollisionNext]_vars

\* n times the character c
Repeat(c, n) == [i \in 1..n |-> c]

\* A positive amount written with i integer digits and f fraction digits,
\* none of them a leading zero: "77.333" for i = 2, f = 3.  With i = 0 the
\* amount is below one: "0.001" for f = 3.
DecimalOfShape(i, f) ==
    IF i = 0
    THEN <<"0", ".">> \o Repeat("0", f - 1) \o <<"1">>
    ELSE Repeat("7", i) \o (IF f = 0 THEN <<>> ELSE <<".">> \o Repeat("3", f))

ShapedAmounts ==
    {DecimalOfShape(i, f) : i \in 1..MaxIntegerDigits, f \in 0..MaxFractionDigits}
      \cup {DecimalOfShape(0, f) : f \in 1..MaxFractionDigits}

\* A Transfer from aAddress to bAddress of a shaped amount, at the point
\* where its transaction is open and the amount is about to be validated.
ValidatorInit ==
    /\ wallets \in SeedLedgers
    /\ seeded = wallets
    /\ hashTable \in HashTables
    /\ lockHolder = [k \in LockKeys |-> NoWorker]
    /\ pc = [t \in Workers |-> IF t = 1 THEN "validate" ELSE "idle"]
    /\ \E amount \in ShapedAmounts :
          call = [t \in Workers |->
                    IF t = 1 THEN [from |-> aAddress, to |-> bAddress, amount |-> amount]
                    ELSE NoCall]
    /\ txWrites = [t \in Workers |-> NoRows]
    /\ senderBalance = [t \in Workers |-> 0]
    /\ result = [t \in Workers |-> NoResult]
    /\ overlapped = [t \in Workers |-> FALSE]
    /\ walletReply = [t \in Workers |-> NoReply]
    /\ UnusedInit

ValidatorNext == \E t \in Workers : Validate(t)

ValidatorSpec == ValidatorInit /\ [][ValidatorNext]_vars

\* ------------------------------------------ amounts breaking several rules
\* The shaped amounts as they are, with a '-' before them, with a letter
\* after them, and zero written with f fraction digits.
AmountKinds == {"positive", "negative", "unparsable", "zero"}

AmountOfKind(kind, i, f) ==
    CASE kind = "positive" -> DecimalOfShape(i, f)
      [] kind = "negative" -> <<"-">> \o DecimalOfShape(i, f)
      [] kind = "unparsable" -> DecimalOfShape(i, f) \o <<"x">>
      [] kind = "zero" -> <<"0">> \o (IF f = 0 THEN <<>> ELSE <<".">> \o Repeat("0", f))

\* the shapes DecimalOfShape is defined on (for zero the integer digits do
\* not count)
Shapes(kind) ==
    {<<i, f>> \in (0..MaxIntegerDigits) \X (0..MaxFractionDigits) :
        IF kind = "zero" THEN i = 0 ELSE (i = 0 => f > 0)}

KindAmounts ==
    UNION { {AmountOfKind(kind, sh[1], sh[2]) : sh \in Shapes(kind)} : kind \in AmountKinds }

\* A Transfer from aAddress to bAddress of one of these amounts, at the
\* point where the amount is about to be validated.
OrderInit ==
    /\ wallets \in SeedLedgers
    /\ seeded = wallets
    /\ hashTable \in HashTables
    /\ lockHolder = [k \in LockKeys |-> NoWorker]
    /\ pc = [t \in Workers |-> IF t = 1 THEN "validate" ELSE "idle"]
    /\ \E amount \in KindAmounts :
          call = [t \in Workers |->
                    IF t = 1 THEN [from |-> aAddress, to |-> bAddress, amount |-> amount]
                    ELSE NoCall]
    /\ txWrites = [t \in Workers |-> NoRows]
    /\ senderBalance = [t \in Workers |-> 0]
    /\ result = [t \in Workers |-> NoResult]
    /\ overlapped = [t \in Workers |-> FALSE]
    /\ walletReply = [t \in Workers |-> NoReply]
    /\ UnusedInit

OrderNext == \E t \in Workers : Validate(t)

OrderSpec == OrderInit /\ [][OrderNext]_vars

\* The workers whose transaction must end before the pending statement of t
\* can run: the holder of the advisory lock t requests, the writers of the
\* row t inserts or updates.
Blockers(t) ==
    LET keys == lockWallets(call[t].from, call[t].to)
        holderOf(key) == IF LockGranted(t, key) THEN {} ELSE {lockHolder[key]}
        writersOf(address) == {u \in Workers \ {t} : address \in DOMAIN txWrites[u]}
    IN  CASE pc[t] = "lock1" -> holderOf(keys[1])
          [] pc[t] = "lock2" -> holderOf(keys[2])
          [] pc[t] = "addWallet" -> writersOf(call[t].to)
          [] pc[t] = "debit" -> writersOf(call[t].from)
          [] pc[t] = "credit" -> writersOf(call[t].to)
          [] OTHER -> {}

RECURSIVE WillRun(_, _)
\* the statement t is at waits for nobody, or waits only for transactions
\* that can themselves end (followed through at most n waits)
WillRun(t, n) ==
    \/ Blockers(t) = {}
    \/ /\ n > 0
       /\ \A u \in Blockers(t) : WillRun(u, n - 1)

\* ------------------------------------------------- any lock keys, fairly
\* Every assignment of three key values to the three addresses: all orders
\* of distinct keys and all collisions.
AnyKeys == {-1, 1, 2}

AnyHashTables ==
    { [a \in DOMAIN h |-> IF a \in Addresses THEN f[a] ELSE h[a]] :
        f \in [Addresses -> AnyKeys], h \in HashTables }

FairInit ==
    /\ wallets \in {f \in SeedLedgers : \A a \in DOMAIN f : f[a] = MaxSeedBalance}
    /\ seeded = wallets
    /\ hashTable \in AnyHashTables
    /\ lockHolder = [k \in LockKeys |-> NoWorker]
    /\ pc = [t \in Workers |-> "idle"]
    /\ call = [t \in Workers |-> NoCall]
    /\ txWrites = [t \in Workers |-> NoRows]
    /\ senderBalance = [t \in Workers |-> 0]
    /\ result = [t \in Workers |-> NoResult]
    /\ overlapped = [t \in Workers |-> FALSE]
    /\ walletReply = [t \in Workers |-> NoReply]
    /\ UnusedInit

\* the next statement of t's Transfer
Step(t) ==
    \/ Begin(t)
    \/ Validate(t)
    \/ LockFirst(t)
    \/ LockSecond(t)
    \/ ReadSender(t)
    \/ ReadRecipient(t)
    \/ AddWallet(t)
    \/ Debit(t)
    \/ Credit(t)
    \/ Commit(t)

FairNext ==
    \/ \E t \in Workers, fromAddress \in Addresses, toAddress \in Addresses :
          Call(t, fromAddress, toAddress, AmountString(1))
    \/ \E t \in Workers : Step(t)

\* t's next statement waits for no lock and no row of another transaction
Runnable(t) == pc[t] \in InFlight /\ Blockers(t) = {}

\* Weak fairness of Step(t), with the states in which Step(t) is enabled
\* written out as Runnable(t): a goroutine whose next statement can run is
\* eventually scheduled, and the store answers a statement that waits for
\* nothing.
FairSpec ==
    /\ FairInit
    /\ [][FairNext]_vars
    /\ \A t \in Workers : ([]<>(~Runnable(t)) \/ []<><<Step(t)>>_vars)

\* ------------------------------------------------------ serial reference
\* Transfer run alone on the committed rows, with no store failure: the rows
\* it leaves and what it returns.
SerialTransfer(rows, c) ==
    LET err == validateTokenAmount(c.amount)
        transferAmount == RatSetString(c.amount)
    IN  IF err # NoError THEN [rows |-> rows, value |-> <<>>, err |-> err]
        ELSE IF c.from \notin DOMAIN rows
        THEN [rows |-> rows, value |-> <<>>, err |-> ErrNoRows]
        ELSE IF InsufficientBalance(RatSetString(FloatString18(rows[c.from])), transferAmount)
        THEN [rows |-> rows, value |-> <<>>, err |-> ErrInsufficient]
        ELSE LET created == IF c.to \in DOMAIN rows THEN rows ELSE WithRow(rows, c.to, 0)
                 debited == WithRow(created, c.from, DebitedBalance(created[c.from], c.amount))
                 credited == WithRow(debited, c.to, CreditedBalance(debited[c.to], c.amount))
             IN  [rows |-> credited,
                  value |-> FloatString18(rows[c.from] - transferAmount),
                  err |-> NoError]

RECURSIVE SerialRun(_, _)
\* The calls of the workers in `order`, one after the other: the final rows
\* and each worker's return.
SerialRun(rows, order) ==
    IF order = <<>> THEN [rows |-> rows, returns |-> <<>>]
    ELSE LET first == SerialTransfer(rows, call[Head(order)])
             rest == SerialRun(first.rows, Tail(order))
         IN  [rows |-> rest.rows,
              returns |-> <<[value |-> first.value, err |-> first.err]>> \o rest.returns]

\* ================================================================ claims
RECURSIVE SumOver(_, _)
SumOver(rows, addresses) ==
    IF addresses = {} THEN 0
    ELSE LET a == CHOOSE x \in addresses : TRUE
         IN  rows[a] + SumOver(rows, addresses \ {a})

TotalBalance(rows) == SumOver(rows, DOMAIN rows)

Called == {t \in Workers : call[t] # NoCall}
Succeeded(t) == pc[t] = "done"
FailedWith(t, err) == pc[t] = "failed" /\ result[t].err = err
AllReturned == \A t \in Workers : pc[t] \in Terminal \cup {"idle", "answered"}
AmountIsValid(t) == validateTokenAmount(call[t].amount) = NoError
AmountOf(t) == RatSetString(call[t].amount)

\* C1: in every reachable state, whatever the interleaving of the Transfer
\* calls, every committed balance of the wallets table is >= 0.
C1_BalancesNonNegative == \A a \in DOMAIN wallets : wallets[a] >= 0

\* two calls raced for the same sender with more than it holds: one
\* committed, the other was refused, and the sender is left with 0
C1_Witness ==
    \E t \in Workers, u \in Workers :
        /\ t # u /\ (overlapped[t] \/ overlapped[u])
        /\ call[t].from = call[u].from
        /\ Succeeded(t) /\ FailedWith(u, ErrInsufficient)
        /\ wallets[call[t].from] = 0

\* C2: no step of any Transfer call (committing, failing, creating the
\* recipient) or Wallet query changes the sum of the committed balances.
C2_TotalConserved == [][TotalBalance(wallets') = TotalBalance(wallets)]_vars

\* a transfer created its recipient and committed, and another request
\* failed or was a query
C2_Witness ==
    \E t \in Workers, u \in Workers :
        /\ Succeeded(t) /\ call[t].to \notin DOMAIN seeded
        /\ call[t].to \in DOMAIN wallets /\ wallets[call[t].to] > 0
        /\ pc[u] \in {"failed", "answered"}

\* C4: the step by which a Transfer call returns an error leaves the
\* committed table as it was and discards everything the call wrote, and the
\* committed table changes only by the Commit of a call that returns success.
C4_FailureLeavesLedger ==
    [][ /\ \A t \in Workers :
              (pc[t] \in InFlight /\ pc'[t] = "failed")
                  => (wallets' = wallets /\ txWrites'[t] = NoRows /\ result'[t].err # NoError)
        /\ wallets' # wallets
              => \E t \in Workers : pc[t] = "commit" /\ pc'[t] = "done"
                                    /\ result'[t].err = NoError ]_vars

\* a call was refused for insufficient balance after another call committed:
\* the table shows the committed transfer only
C4_Witness ==
    \E t \in Workers, u \in Workers :
        /\ FailedWith(t, ErrInsufficient) /\ Succeeded(u)
        /\ call[u].from # call[u].to
        /\ wallets # seeded
        /\ TotalBalance(wallets) = TotalBalance(seeded)

\* C5: transfers between the same two accounts in opposite directions, run
\* concurrently, all return (commit or fail): in no reachable state does one
\* of them wait for a lock that is never released.  The statement a running
\* transfer is at waits for nobody, or for transactions that do not wait for
\* it in turn; as a call takes at most ten steps, each one returns under
\* fair scheduling.
Opposed(t, u) ==
    /\ t # u /\ call[t] # NoCall /\ call[u] # NoCall
    /\ call[t].from # call[t].to
    /\ call[u].from = call[t].to /\ call[u].to = call[t].from

C5_OpposedTransfersNeverStuck ==
    \A t \in Workers :
        (pc[t] \in InFlight /\ \E u \in Workers : Opposed(t, u)) => WillRun(t, NumWorkers)

\* two opposed transfers overlapped and both committed
C5_Witness ==
    \E t \in Workers, u \in Workers :
        /\ Opposed(t, u) /\ overlapped[u]
        /\ Succeeded(t) /\ Succeeded(u)

\* Sender and recipient are well-formed addresses of two different accounts
\* (every address of the model is well formed and in canonical case).
AddressesValid(t) == call[t].from # call[t].to

RECURSIVE SumAmounts(_)
SumAmounts(ws) ==
    IF ws = {} THEN 0
    ELSE LET t == CHOOSE x \in ws : TRUE IN AmountOf(t) + SumAmounts(ws \ {t})

DebitsOf(address) == SumAmounts({t \in Called : call[t].from = address})
CreditsOf(address) == SumAmounts({t \in Called : call[t].to = address})

\* C3: the commit of a transfer of amount a from X to Y leaves X with its
\* balance before minus a and Y with its balance before (0 when it had no
\* row) plus a, and changes no other row.
C3_TransferMovesExactAmount ==
    [][ \A t \in Workers :
          (pc[t] = "commit" /\ pc'[t] = "done") =>
              LET x == call[t].from
                  y == call[t].to
                  a == AmountOf(t)
              IN  /\ x \in DOMAIN wallets
                  /\ DOMAIN wallets' = DOMAIN wallets \cup {y}
                  /\ wallets'[x] = wallets[x] - a
                  /\ wallets'[y] = (IF y \in DOMAIN wallets THEN wallets[y] ELSE 0) + a
                  /\ \A z \in DOMAIN wallets \ {x, y} : wallets'[z] = wallets[z] ]_vars

\* C6: when every transfer of a set of transfers between two seeded accounts
\* X and Y is funded in every order (each account holds at least the sum of
\* its debits) and the store does not fail, all of them succeed and each
\* account ends with its seed plus its credits minus its debits.
C6_FundedTransfersAllApply ==
    \A x \in DOMAIN seeded, y \in DOMAIN seeded :
        ( /\ x # y
          /\ AllReturned
          /\ Called # {}
          /\ \A t \in Called :
                /\ pc[t] \in Terminal
                /\ {call[t].from, call[t].to} = {x, y}
                /\ AmountIsValid(t)
                /\ ~FailedWith(t, ErrStore)
          /\ seeded[x] >= DebitsOf(x)
          /\ seeded[y] >= DebitsOf(y) )
        => /\ \A t \in Called : Succeeded(t)
           /\ wallets[x] = seeded[x] + CreditsOf(x) - DebitsOf(x)
           /\ wallets[y] = seeded[y] + CreditsOf(y) - DebitsOf(y)

\* two overlapping transfers in opposite directions, of different amounts,
\* both applied
C6_Witness ==
    \E t \in Workers, u \in Workers :
        /\ Opposed(t, u) /\ overlapped[u]
        /\ Succeeded(t) /\ Succeeded(u)
        /\ AmountOf(t) # AmountOf(u)
        /\ wallets[call[t].from] = seeded[call[t].from] - AmountOf(t) + AmountOf(u)

\* C7: when all the transfers that were called have returned (and the store
\* did not fail), what each one returned and the committed table are those of
\* running the same calls one after the other in some order.
Orders(ws) ==
    {o \in [1..Cardinality(ws) -> ws] : \A i, j \in 1..Cardinality(ws) : o[i] = o[j] => i = j}

MatchesSerial(order) ==
    LET run == SerialRun(seeded, order)
    IN  /\ run.rows = wallets
        /\ \A i \in 1..Len(order) : run.returns[i] = result[order[i]]

C7_OutcomeIsSerial ==
    ( /\ AllReturned
      /\ \A t \in Called : pc[t] \in Terminal /\ ~FailedWith(t, ErrStore) )
    => \E order \in Orders(Called) : MatchesSerial(order)

\* two overlapping transfers that share an account returned, and only one of
\* the two serial orders explains the outcome
C7_Witness ==
    /\ AllReturned
    /\ \E t \in Workers, u \in Workers :
          /\ t # u /\ overlapped[u]
          /\ pc[t] \in Terminal /\ pc[u] \in Terminal
          /\ ~FailedWith(t, ErrStore) /\ ~FailedWith(u, ErrStore)
          /\ {call[t].from, call[t].to} \cap {call[u].from, call[u].to} # {}
          /\ MatchesSerial(<<u, t>>) /\ ~MatchesSerial(<<t, u>>)

\* C8: of two concurrent transfers from the same sender whose amounts sum to
\* more than the sender holds, with no other transfer crediting the sender, at
\* most one succeeds, and one that does not is refused for insufficient
\* balance.
C8_RacingDebitsOneRefused ==
    \A t \in Workers, u \in Workers :
        ( /\ t # u /\ (overlapped[t] \/ overlapped[u])
          /\ pc[t] \in Terminal /\ pc[u] \in Terminal
          /\ ~FailedWith(t, ErrStore) /\ ~FailedWith(u, ErrStore)
          /\ AmountIsValid(t) /\ AmountIsValid(u)
          /\ call[t].from = call[u].from
          /\ call[t].from \in DOMAIN seeded
          /\ AmountOf(t) + AmountOf(u) > seeded[call[t].from]
          /\ \A v \in Called \ {t, u} : call[v].to # call[t].from )
        => /\ ~(Succeeded(t) /\ Succeeded(u))
           /\ FailedWith(t, ErrInsufficient) \/ FailedWith(u, ErrInsufficient)

\* C9: the step at which a transfer with valid addresses and amount has read
\* the balance of its existing sender refuses it for insufficient balance
\* exactly when that balance is below the amount; a transfer of the whole
\* balance is not refused, fails afterwards only if the store fails, and
\* its commit leaves the sender with 0.
C9_InsufficientIffBelowAmount ==
    [][ \A t \in Workers :
          (AddressesValid(t) /\ AmountIsValid(t)) =>
            /\ ( /\ pc[t] = "readSender" /\ pc'[t] # "readSender"
                 /\ call[t].from \in DOMAIN Visible(t)
                 /\ result'[t].err # ErrStore )
               => ( (pc'[t] = "failed" /\ result'[t].err = ErrInsufficient)
                      <=> Visible(t)[call[t].from] < AmountOf(t) )
            /\ ( /\ pc[t] \in {"readRecipient", "addWallet", "debit", "credit", "commit"}
                 /\ senderBalance[t] = AmountOf(t)
                 /\ pc'[t] = "failed" )
               => result'[t].err = ErrStore
            /\ ( /\ pc[t] = "commit" /\ pc'[t] = "done"
                 /\ senderBalance[t] = AmountOf(t) )
               => wallets'[call[t].from] = 0 ]_vars

\* a transfer of the whole balance committed and left its sender with 0,
\* and a transfer of more than the balance was refused
C9_Witness ==
    \E t \in Workers, u \in Workers :
        /\ AddressesValid(t) /\ Succeeded(t)
        /\ call[t].from \in DOMAIN seeded
        /\ AmountOf(t) = seeded[call[t].from]
        /\ wallets[call[t].from] = 0
        /\ AddressesValid(u) /\ FailedWith(u, ErrInsufficient)

\* C10: the step at which a transfer finds no row for its sender returns
\* sql.ErrNoRows, leaves the committed table as it was (no sender row, the
\* recipient unchanged) and has written nothing; no transfer commits without
\* a sender row.
C10_MissingSenderRefused ==
    [][ \A t \in Workers :
          /\ ( /\ pc[t] = "readSender" /\ pc'[t] # "readSender"
               /\ call[t].from \notin DOMAIN Visible(t)
               /\ result'[t].err # ErrStore )
             => /\ pc'[t] = "failed"
                /\ result'[t].err = ErrNoRows
                /\ wallets' = wallets
                /\ txWrites[t] = NoRows /\ txWrites'[t] = NoRows
          /\ (pc[t] = "commit" /\ pc'[t] = "done") => call[t].from \in DOMAIN wallets ]_vars

\* a transfer from an address without a row to a seeded wallet returned
\* sql.ErrNoRows
C10_Witness ==
    \E t \in Workers :
        /\ FailedWith(t, ErrNoRows)
        /\ call[t].from \notin DOMAIN wallets
        /\ call[t].to \in DOMAIN seeded
        /\ wallets[call[t].to] = seeded[call[t].to]

\* C11: a transfer between two different accounts with a valid amount, whose
\* recipient has no row, goes on from the recipient read to the INSERT of
\* the row with balance 0 in its own transaction; once its sender is read and
\* funded it fails only if the store fails (never with sql.ErrNoRows), and
\* its commit leaves the recipient row with exactly the amount.
C11_MissingRecipientCreated ==
    [][ \A t \in Workers :
          (AddressesValid(t) /\ AmountIsValid(t)) =>
            /\ ( /\ pc[t] = "readRecipient" /\ pc'[t] # "readRecipient"
                 /\ call[t].to \notin DOMAIN Visible(t)
                 /\ result'[t].err # ErrStore )
               => pc'[t] = "addWallet"
            /\ ( pc[t] = "addWallet" /\ pc'[t] = "debit" )
               => /\ call[t].to \in DOMAIN txWrites'[t]
                  /\ txWrites'[t][call[t].to] = 0
                  /\ wallets' = wallets
            /\ ( /\ pc[t] \in {"readRecipient", "addWallet", "debit", "credit", "commit"}
                 /\ pc'[t] = "failed" )
               => result'[t].err = ErrStore
            /\ ( /\ pc[t] = "commit" /\ pc'[t] = "done"
                 /\ call[t].to \notin DOMAIN wallets )
               => /\ call[t].to \in DOMAIN wallets'
                  /\ wallets'[call[t].to] = AmountOf(t) ]_vars

\* a transfer to an address that was not seeded and that no other transfer
\* credited succeeded: the new row holds the amount
C11_Witness ==
    \E t \in Workers :
        /\ Succeeded(t) /\ AddressesValid(t)
        /\ call[t].to \notin DOMAIN seeded
        /\ \A u \in Called \ {t} : ~Succeeded(u)
        /\ call[t].to \in DOMAIN wallets
        /\ wallets[call[t].to] = AmountOf(t)

\* --------------------------------------------- addresses as the tests read them
\* the errors the tests expect of a transfer between one account and itself
\* and of a transfer naming a malformed address
ErrSameAddress == "sender and recipient addresses must be different"
ErrInvalidAddressFormat == "invalid Ethereum address format"

\* "0x" followed by exactly 40 hexadecimal characters
WellFormedAddresses == {aAddress, smallAAddress, bAddress, cAddress}

\* the address with its hex letters in lower case
LowerCase ==
    (aAddress :> smallAAddress) @@ (smallAAddress :> smallAAddress)
      @@ (bAddress :> "0xb000000000000000000000000000000000000000")
      @@ (cAddress :> "0xc000000000000000000000000000000000000000")

\* two well-formed addresses that differ at most in letter case
SameAccount(x, y) ==
    /\ x \in WellFormedAddresses /\ y \in WellFormedAddresses
    /\ LowerCase[x] = LowerCase[y]

HoldsNoLock(t) == \A k \in LockKeys : lockHolder[k] # t

\* C12: a transfer whose sender and recipient are the same account, in the
\* same or in different letter case, never holds a lock, writes no row, and
\* (unless the store fails) returns the same-address error.
C12_SameAddressRefused ==
    \A t \in Workers :
        (pc[t] \in InFlight \cup Terminal /\ SameAccount(call[t].from, call[t].to))
        => /\ HoldsNoLock(t)
           /\ txWrites[t] = NoRows
           /\ (pc[t] \in Terminal /\ ~FailedWith(t, ErrStore))
                 => FailedWith(t, ErrSameAddress)

\* C13: the rows of the table are one per account whatever the letter case
\* the callers used, and a transfer is not refused for a missing sender when
\* the sender's account has a row under another spelling.
C13_LetterCaseSameAccount ==
    /\ \A x \in DOMAIN wallets, y \in DOMAIN wallets : SameAccount(x, y) => x = y
    /\ \A t \in Workers :
          FailedWith(t, ErrNoRows) =>
              \A x \in DOMAIN seeded : ~SameAccount(x, call[t].from)

\* C14: a transfer naming a sender or a recipient that is not "0x" and 40
\* hex characters writes no row and (unless the store fails) returns the
\* invalid-address-format error; no row of the table has such an address.
C14_MalformedAddressRefused ==
    /\ \A x \in DOMAIN wallets : x \in WellFormedAddresses
    /\ \A t \in Workers :
          ( /\ pc[t] \in InFlight \cup Terminal
            /\ {call[t].from, call[t].to} \ WellFormedAddresses # {} )
          => /\ txWrites[t] = NoRows
             /\ (pc[t] \in Terminal /\ ~FailedWith(t, ErrStore))
                   => FailedWith(t, ErrInvalidAddressFormat)

\* C15: the validation step of a transfer whose amount is zero or negative
\* returns "amount must be greater than zero", and that of a transfer whose
\* amount is no decimal number returns "invalid decimal amount"; the step
\* leaves the committed rows as they were, the transaction has written
\* nothing, and such a transfer never gets past validation.
C15_BadAmountRefused ==
    [][ \A t \in Workers :
          /\ ( /\ pc[t] = "validate" /\ pc'[t] # "validate"
               /\ call[t].amount \in NonPositiveAmounts \cup UnparsableAmounts )
             => /\ pc'[t] = "failed"
                /\ call[t].amount \in NonPositiveAmounts => result'[t].err = ErrNonPositive
                /\ call[t].amount \in UnparsableAmounts => result'[t].err = ErrInvalidDecimal
                /\ wallets' = wallets
                /\ txWrites[t] = NoRows /\ txWrites'[t] = NoRows
          /\ ( call'[t].amount \in NonPositiveAmounts \cup UnparsableAmounts )
             => pc'[t] \in {"idle", "answered", "begin", "validate", "failed"} ]_vars

\* a transfer of zero, a transfer of a negative amount and a transfer of a
\* string that is no number were refused while the table held what it was
\* seeded with
C15_Witness ==
    \E t \in Workers, u \in Workers :
        /\ FailedWith(t, ErrNonPositive) /\ FailedWith(u, ErrInvalidDecimal)
        /\ call[t].amount \in {<<"0">>, <<"-", "1", "2">>}
        /\ overlapped[u]
        /\ wallets = seeded

\* C16: validation lets through a positive amount written with i integer and
\* f fraction digits exactly when f is at most 18 and i + f at most 28: with
\* 18 fraction digits it passes and with 19 it is refused for too many
\* decimal places; with 28 digits in all it passes and with 29 it is refused
\* for too many digits.
C16_PrecisionLimits ==
    \A t \in Workers, i \in 0..MaxIntegerDigits, f \in 0..MaxFractionDigits :
        ( /\ i + f > 0 /\ (i = 0 => f > 0)
          /\ pc[t] \notin {"idle", "validate"}
          /\ call[t].amount = DecimalOfShape(i, f) )
        => LET total == IF i = 0 THEN 1 ELSE i + f
           IN  /\ (f <= 18 /\ total <= 28) => pc[t] = "lock1"
               /\ f >= 19 => FailedWith(t, ErrTooManyDecimals)
               /\ (f <= 18 /\ total >= 29) => FailedWith(t, ErrTooManyDigits)

\* an amount of 10 integer and 18 fraction digits (28 in all) passed
\* validation
C16_Witness ==
    \E t \in Workers :
        /\ pc[t] = "lock1"
        /\ call[t].amount = DecimalOfShape(10, 18)

\* the transaction of t's call is open: r.DB.Begin() has returned
TxOpen(t) == pc[t] \in InFlight \ {"begin"}

ValidationErrors ==
    {ErrInvalidDecimal, ErrNonPositive, ErrTooManyDecimals, ErrTooManyDigits,
     ErrSameAddress, ErrInvalidAddressFormat}

\* C17: the step at which a transfer returns a validation error is taken
\* while no transaction of the call is open (r.DB.Begin() has not run).
C17_ValidationBeforeStore ==
    [][ \A t \in Workers :
          ( /\ pc[t] # "failed" /\ pc'[t] = "failed"
            /\ result'[t].err \in ValidationErrors )
          => ~TxOpen(t) ]_vars

\* C18: the commit of a transfer returns the sender balance it read under
\* the locks minus the amount, written with 18 fraction digits, and that is
\* the sender's committed balance after the commit.
C18_ReturnsNewSenderBalance ==
    [][ \A t \in Workers :
          (pc[t] = "commit" /\ pc'[t] = "done") =>
              /\ result'[t].err = NoError
              /\ result'[t].value = FloatString18(senderBalance[t] - AmountOf(t))
              /\ result'[t].value = FloatString18(wallets'[call[t].from]) ]_vars

Min(a, b) == IF a <= b THEN a ELSE b
Max(a, b) == IF a <= b THEN b ELSE a

\* the keys worker t holds
KeysHeld(t) == {k \in LockKeys : lockHolder[k] = t}

\* C19: the first lock a transfer takes is the lower and the second the
\* higher of the keys of its two addresses, whichever of them is the sender;
\* two transfers between the same two addresses in opposite directions take
\* the same keys in the same order; the key of an address never changes.
C19_LocksInAscendingKeyOrder ==
    [][ /\ hashTable' = hashTable
        /\ \A t \in Workers :
              LET low == Min(hashTable[call[t].from], hashTable[call[t].to])
                  high == Max(hashTable[call[t].from], hashTable[call[t].to])
              IN  /\ (pc[t] = "lock1" /\ pc'[t] = "lock2")
                     => /\ KeysHeld(t) = {}
                        /\ lockHolder' = [lockHolder EXCEPT ![low] = t]
                  /\ (pc[t] = "lock2" /\ pc'[t] = "readSender")
                     => /\ KeysHeld(t) = {low}
                        /\ lockHolder' = [lockHolder EXCEPT ![high] = t]
                  /\ (pc[t] # pc'[t] /\ pc'[t] \in InFlight
                        /\ ~(pc[t] = "lock1" /\ pc'[t] = "lock2")
                        /\ ~(pc[t] = "lock2" /\ pc'[t] = "readSender"))
                     => lockHolder' = lockHolder ]_vars

\* a transfer holds the lower key of its addresses, which is its recipient's,
\* while the transfer in the opposite direction waits for that same key
C19_Witness ==
    \E t \in Workers, u \in Workers :
        /\ Opposed(t, u)
        /\ hashTable[call[t].to] < hashTable[call[t].from]
        /\ pc[t] = "lock2" /\ KeysHeld(t) = {hashTable[call[t].to]}
        /\ pc[u] = "lock1" /\ KeysHeld(u) = {}

\* C20: a transfer that has taken its locks holds the keys of both its
\* addresses at every position up to its commit or failure; a call that has
\* returned, by commit or by any error, holds no key; a key passes from a
\* worker only at the step that ends its call.
C20_LocksHeldUntilEnd ==
    [][ \A t \in Workers :
          /\ pc'[t] \in {"readSender", "readRecipient", "addWallet", "debit", "credit", "commit"}
             => KeysHeld(t)' = {hashTable[call'[t].from], hashTable[call'[t].to]}
          /\ pc'[t] \in Terminal \cup {"idle", "answered"} => KeysHeld(t)' = {}
          /\ (KeysHeld(t) \ KeysHeld(t)' # {})
             => (pc[t] \in InFlight /\ pc'[t] \in Terminal) ]_vars

\* after a transfer failed for insufficient balance under its two locks, a
\* later transfer on the same two accounts took both keys and succeeded
C20_Witness ==
    \E t \in Workers, u \in Workers :
        /\ FailedWith(t, ErrInsufficient)
        /\ ~overlapped[u] /\ t < u
        /\ {call[t].from, call[t].to} = {call[u].from, call[u].to}
        /\ call[t].from # call[t].to
        /\ Succeeded(u)

\* the positions at which a transfer reads or writes rows: after lockWallets
\* returned and before the transaction ends
InCriticalSection(t) ==
    pc[t] \in {"readSender", "readRecipient", "addWallet", "debit", "credit", "commit"}

\* C21: a transfer that is reading or writing rows, or has written rows its
\* transaction has not ended yet, holds the keys of both its addresses and
\* has written only rows of those addresses; no two transfers that have an
\* address in common are in that part at the same time.
C21_RowsTouchedUnderLock ==
    /\ \A t \in Workers :
          /\ InCriticalSection(t) =>
                /\ lockHolder[hashTable[call[t].from]] = t
                /\ lockHolder[hashTable[call[t].to]] = t
          /\ txWrites[t] # NoRows =>
                /\ InCriticalSection(t)
                /\ DOMAIN txWrites[t] \subseteq {call[t].from, call[t].to}
    /\ \A t \in Workers, u \in Workers :
          ( /\ t # u
            /\ InCriticalSection(t) /\ InCriticalSection(u) )
          => {call[t].from, call[t].to} \cap {call[u].from, call[u].to} = {}

\* one transfer is updating rows under its locks while another transfer that
\* shares an account with it waits for a lock
C21_Witness ==
    \E t \in Workers, u \in Workers :
        /\ t # u
        /\ pc[t] = "credit" /\ txWrites[t] # NoRows
        /\ pc[u] \in {"lock1", "lock2"}
        /\ call[u].from # call[u].to
        /\ {call[t].from, call[t].to} \cap {call[u].from, call[u].to} # {}
        /\ Blockers(u) = {t}

\* C22: a transfer whose ctx was cancelled while it was in flight, before
\* its commit, does not commit: when it has returned, it has returned an
\* error.
C22_CancelledTransferAborts ==
    \A t \in Workers :
        (ctxDone[t] /\ pc[t] \in Terminal) => pc[t] = "failed"

\* C23: with WalletTable naming test_wallets, no step changes the rows of the
\* wallets table, a Transfer that commits changes rows of test_wallets, and
\* a Wallet query that finds a wallet answers with its test_wallets balance.
C23_OnlyConfiguredTableUsed ==
    [][ walletTable = "test_wallets" =>
          /\ wallets' = wallets
          /\ \A t \in Workers :
                /\ (pc[t] = "commit" /\ pc'[t] = "done") => testWallets' # testWallets
                /\ ( /\ pc[t] = "idle" /\ pc'[t] = "answered"
                     /\ walletReply'[t].err = NoError )
                   => /\ walletReply'[t].address \in DOMAIN testWallets
                      /\ walletReply'[t].balance =
                            FloatString18(testWallets[walletReply'[t].address]) ]_vars

\* C24: a Wallet query for an address that has a committed row answers with
\* that address and the row's balance (written with 18 fraction digits) and
\* no error; for an address without a row it answers sql.ErrNoRows and no
\* wallet.
C24_WalletAnswersStoredBalance ==
    [][ \A t \in Workers, address \in Addresses :
          Wallet(t, address) =>
              IF address \in DOMAIN wallets
              THEN walletReply'[t] = [address |-> address,
                                      balance |-> FloatString18(wallets[address]),
                                      err |-> NoError]
              ELSE /\ walletReply'[t].err = ErrNoRows
                   /\ walletReply'[t].balance = <<>> ]_vars

\* one query was answered with a wallet and its stored balance, another with
\* sql.ErrNoRows
C24_Witness ==
    \E t \in Workers, u \in Workers :
        /\ pc[t] = "answered" /\ walletReply[t].err = NoError
        /\ walletReply[t].address \in DOMAIN wallets
        /\ walletReply[t].balance = FloatString18(wallets[walletReply[t].address])
        /\ pc[u] = "answered" /\ walletReply[u].err = ErrNoRows

\* C25: the step of a Wallet query, answered with a wallet or with an error,
\* leaves the committed rows, the rows of every open transaction and the
\* holders of the locks as they were.
C25_WalletQueryChangesNothing ==
    [][ \A t \in Workers :
          (pc[t] = "idle" /\ pc'[t] = "answered") =>
              /\ wallets' = wallets
              /\ txWrites' = txWrites
              /\ lockHolder' = lockHolder
              /\ walletReply'[t].err \in {NoError, ErrNoRows} ]_vars

\* a query was answered with sql.ErrNoRows while a transfer was in flight
\* holding a lock, and the table has the rows it was seeded with
C25_Witness ==
    \E t \in Workers, u \in Workers :
        /\ pc[u] = "answered" /\ walletReply[u].err = ErrNoRows
        /\ pc[t] \in InFlight /\ KeysHeld(t) # {}
        /\ wallets = seeded

\* C26: no step removes a row of the table, and a step that adds rows is the
\* commit of a transfer and adds exactly the row of that transfer's recipient;
\* steps of failing transfers and of Wallet queries add none.
C26_AccountsOnlyAddedByCommit ==
    [][ /\ DOMAIN wallets \subseteq DOMAIN wallets'
        /\ DOMAIN wallets' # DOMAIN wallets =>
              \E t \in Workers :
                  /\ pc[t] = "commit" /\ pc'[t] = "done"
                  /\ DOMAIN wallets' \ DOMAIN wallets = {call[t].to} ]_vars

\* a transfer to an absent recipient was refused for insufficient balance and
\* left no row, and another transfer committed a new recipient row
C26_Witness ==
    \E t \in Workers, u \in Workers :
        /\ FailedWith(t, ErrInsufficient)
        /\ call[t].to \notin DOMAIN wallets
        /\ Succeeded(u)
        /\ DOMAIN wallets = DOMAIN seeded \cup {call[u].to}
        /\ call[u].to \notin DOMAIN seeded

\* the workers whose transfer names the address as recipient
CreditorsOf(address) == {t \in Called : call[t].to = address}

\* When overlapping transfers with valid amounts, all to one recipient that
\* was not seeded, from seeded senders that hold the sum of their debits, have
\* all returned without a store failure: all of them succeeded and the
\* recipient's row holds the sum of the amounts.
ConcurrentCreditsApplied ==
    \A address \in Addresses \ DOMAIN seeded :
        ( /\ AllReturned
          /\ Cardinality(CreditorsOf(address)) >= 2
          /\ Called = CreditorsOf(address)
          /\ \E t \in Called : overlapped[t]
          /\ \A t \in Called :
                /\ pc[t] \in Terminal
                /\ AmountIsValid(t)
                /\ ~FailedWith(t, ErrStore)
                /\ call[t].from \in DOMAIN seeded
          /\ \A t \in Called : seeded[call[t].from] >= DebitsOf(call[t].from) )
        => /\ \A t \in Called : Succeeded(t)
           /\ address \in DOMAIN wallets
           /\ wallets[address] = CreditsOf(address)

\* C27: no two open transactions have written (inserted or updated) the row
\* of the same address, so one transfer at a time creates a recipient row; no
\* transfer fails on a duplicate key; and concurrent funded transfers to a
\* recipient without a row all succeed, leaving one row with the sum of
\* their amounts.
C27_ConcurrentCreationOnce ==
    /\ \A t \in Workers, u \in Workers :
          t # u => DOMAIN txWrites[t] \cap DOMAIN txWrites[u] = {}
    /\ \A t \in Workers : ~FailedWith(t, ErrUniqueViolation)
    /\ ConcurrentCreditsApplied

\* two overlapping transfers to a recipient that had no row both succeeded
C27_Witness ==
    \E t \in Workers, u \in Workers :
        /\ t # u /\ overlapped[u]
        /\ call[t].to = call[u].to
        /\ call[t].to \notin DOMAIN seeded
        /\ Succeeded(t) /\ Succeeded(u)
        /\ wallets[call[t].to] = AmountOf(t) + AmountOf(u)

\* the calls of the caller's record that succeeded, in order
Successes == SelectSeq(history, LAMBDA e : e.err = NoError)

\* The successful transfers made so far are two or three transfers of one
\* amount, each from the recipient of the one before, the last one back to
\* the first sender, through different addresses.
ClosedChain ==
    LET h == Successes
        n == Len(h)
    IN  /\ n \in {2, 3}
        /\ \A i \in 1..n : h[i].amount = h[1].amount
        /\ \A i \in 1..(n - 1) : h[i].to = h[i + 1].from
        /\ h[n].to = h[1].from
        /\ \A i \in 1..n, j \in 1..n : h[i].from = h[j].from => i = j

\* C28: after a closed chain of successful sequential transfers of one
\* amount, every row the table was seeded with holds its seeded balance and
\* every row created on the way holds 0.
C28_ClosedChainRestoresBalances ==
    ( /\ \A t \in Workers : pc[t] = "idle"
      /\ ClosedChain )
    => \A a \in DOMAIN wallets :
          wallets[a] = IF a \in DOMAIN seeded THEN seeded[a] ELSE 0

\* a chain of three transfers through two addresses that had no row came
\* back to its start
C28_Witness ==
    /\ \A t \in Workers : pc[t] = "idle"
    /\ ClosedChain
    /\ Len(Successes) = 3
    /\ Cardinality(DOMAIN wallets \ DOMAIN seeded) = 2

\* place of each address in the lexicographic order of the addresses in
\* lower case
LexicographicRank == (aAddress :> 1) @@ (bAddress :> 2) @@ (cAddress :> 3)

\* C29: a transfer between two different addresses whose lock keys are equal
\* requests the lock of the address that comes first in the lexicographic
\* order of the lower-cased addresses before the lock of the other one,
\* whichever of the two is the sender.
C29_EqualKeysLexicographicOrder ==
    \A t \in Workers :
        ( /\ pc[t] = "lock2"
          /\ call[t].from # call[t].to
          /\ hashAddress(call[t].from) = hashAddress(call[t].to) )
        => LET order == lockWalletsAddresses(call[t].from, call[t].to)
           IN  LexicographicRank[order[1]] < LexicographicRank[order[2]]

\* the phase of a Transfer at each position of its code
Phase ==
    [p \in {"begin", "validate"} |-> "Validating"]
      @@ [p \in {"lock1", "lock2"} |-> "Locking"]
      @@ [p \in {"readSender", "readRecipient"} |-> "Reading"]
      @@ [p \in {"addWallet"} |-> "CreatingRecipient"]
      @@ [p \in {"debit", "credit", "commit"} |-> "Updating"]
      @@ [p \in {"done"} |-> "Committed"]
      @@ [p \in {"failed"} |-> "Failed"]
      @@ [p \in {"idle", "answered"} |-> "NoTransfer"]

NonTerminalPhases ==
    {"Validating", "Locking", "Reading", "CreatingRecipient", "Updating"}

PhaseOrder ==
    { <<"NoTransfer", "Validating">>, <<"Validating", "Locking">>,
      <<"Locking", "Reading">>, <<"Reading", "CreatingRecipient">>,
      <<"Reading", "Updating">>, <<"CreatingRecipient", "Updating">>,
      <<"Updating", "Committed">> }
      \cup { <<n, "Failed">> : n \in NonTerminalPhases }

\* C30: a Transfer changes phase only along Validating, Locking, Reading,
\* optionally CreatingRecipient, Updating, Committed, or from one of these
\* but the last to Failed; once Committed or Failed it stays there, takes no
\* lock, writes no row and keeps its result.
C30_PhasesInOrder ==
    [][ \A t \in Workers :
          /\ Phase[pc[t]] # Phase[pc'[t]]
                => <<Phase[pc[t]], Phase[pc'[t]]>> \in PhaseOrder
          /\ pc[t] \in Terminal
                => /\ pc'[t] = pc[t]
                   /\ result'[t] = result[t]
                   /\ txWrites'[t] = NoRows
                   /\ \A k \in LockKeys : lockHolder'[k] # t ]_vars

\* one transfer committed after creating its recipient while the other
\* failed on the sender's balance
C30_Witness ==
    \E t \in Workers, u \in Workers :
        /\ Succeeded(t)
        /\ call[t].to \notin DOMAIN seeded
        /\ FailedWith(u, ErrInsufficient)

\* an address of t and a different address of u have one lock key
CollideAcross(t, u) ==
    \E x \in {call[t].from, call[t].to}, y \in {call[u].from, call[u].to} :
        x # y /\ hashAddress(x) = hashAddress(y)

\* C31: under every assignment of lock keys in which different addresses
\* share a key, when all the transfers that were called have returned, what
\* each one returned and the committed table are those of running the same
\* calls one after the other in some order.
C31_CollisionsKeepSerialOutcome ==
    ( /\ \E x \in Addresses, y \in Addresses : x # y /\ hashAddress(x) = hashAddress(y)
      /\ AllReturned
      /\ \A t \in Called : pc[t] \in Terminal )
    => \E order \in Orders(Called) :
          LET run == SerialRun(seeded, order)
          IN  /\ wallets = run.rows
              /\ \A i \in 1..Len(order) :
                    /\ result[order[i]].err = run.returns[i].err
                    /\ result[order[i]].value = run.returns[i].value
                    /\ Succeeded(order[i]) <=> run.returns[i].err = NoError

\* two overlapping transfers between different accounts, an address of one
\* sharing its key with a different address of the other, both returned, one
\* committed and the other refused, and only one serial order explains it
C31_Witness ==
    /\ AllReturned
    /\ \E t \in Workers, u \in Workers :
          /\ t # u /\ overlapped[u]
          /\ AddressesValid(t) /\ AddressesValid(u)
          /\ CollideAcross(t, u)
          /\ hashAddress(call[t].from) # hashAddress(call[u].from)
          /\ Succeeded(t) /\ FailedWith(u, ErrInsufficient)
          /\ MatchesSerial(<<t, u>>) /\ ~MatchesSerial(<<u, t>>)

\* C32: a caller that has made no call can always have its Wallet query
\* answered, for every address, whoever holds the advisory lock of that
\* address and whatever rows open transactions have written.
C32_WalletNeverWaits ==
    \A t \in Workers, address \in Addresses :
        ( /\ pc[t] = "idle"
          /\ \A u \in Workers : u < t => pc[u] # "idle" )
        => ENABLED Wallet(t, address)

\* a Wallet query was answered with the committed balance of the sender of a
\* transfer that holds the sender's lock, has debited the row and has not
\* ended its transaction
C32_Witness ==
    \E t \in Workers, u \in Workers :
        /\ pc[t] = "answered" /\ walletReply[t].err = NoError
        /\ pc[u] \in {"credit", "commit"}
        /\ AddressesValid(u)
        /\ walletReply[t].address = call[u].from
        /\ lockHolder[hashAddress(call[u].from)] = u
        /\ call[u].from \in DOMAIN txWrites[u]
        /\ walletReply[t].balance = FloatString18(wallets[call[u].from])
        /\ txWrites[u][call[u].from] # wallets[call[u].from]

\* C33: every read is of committed rows.  A Wallet query answers with the
\* committed balance of an address that has a committed row; a transfer goes
\* on from its sender read with the sender's committed balance, finds its
\* recipient present exactly when the recipient has a committed row, and
\* (between two different addresses) computes its debit and its credit from
\* the committed balances.
C33_ReadsAreCommitted ==
    [][ \A t \in Workers :
          /\ (pc[t] = "idle" /\ pc'[t] = "answered" /\ walletReply'[t].err = NoError)
                => /\ walletReply'[t].address \in DOMAIN wallets
                   /\ walletReply'[t].balance
                         = FloatString18(wallets[walletReply'[t].address])
          /\ (pc[t] = "readSender" /\ pc'[t] = "readRecipient")
                => /\ call[t].from \in DOMAIN wallets
                   /\ senderBalance'[t] = wallets[call[t].from]
          /\ (pc[t] = "readSender" /\ pc'[t] = "failed" /\ result'[t].err = ErrNoRows)
                => call[t].from \notin DOMAIN wallets
          /\ (pc[t] = "readRecipient" /\ pc'[t] = "addWallet")
                => call[t].to \notin DOMAIN wallets
          /\ (pc[t] = "readRecipient" /\ pc'[t] = "debit" /\ AddressesValid(t))
                => call[t].to \in DOMAIN wallets
          /\ (pc[t] = "debit" /\ pc'[t] = "credit" /\ AddressesValid(t))
                => txWrites'[t][call[t].from] = wallets[call[t].from] - AmountOf(t)
          /\ (pc[t] = "credit" /\ pc'[t] = "commit" /\ AddressesValid(t))
                => txWrites'[t][call[t].to]
                      = (IF call[t].to \in DOMAIN wallets THEN wallets[call[t].to] ELSE 0)
                          + AmountOf(t) ]_vars

\* a Wallet query was answered with the committed balance of the recipient
\* of a transfer whose credit of that row is written and not committed
C33_Witness ==
    \E t \in Workers, u \in Workers :
        /\ pc[t] = "answered" /\ walletReply[t].err = NoError
        /\ pc[u] = "commit"
        /\ AddressesValid(u)
        /\ call[u].to \in DOMAIN wallets
        /\ walletReply[t].address = call[u].to
        /\ walletReply[t].balance = FloatString18(wallets[call[u].to])
        /\ txWrites[u][call[u].to] = wallets[call[u].to] + AmountOf(u)

\* the transfers that were called all have the sender x
RacingFrom(x) ==
    /\ Cardinality(Called) >= 2
    /\ \A t \in Called : call[t].from = x
    /\ \E t \in Called : overlapped[t]

\* C34: when concurrent transfers from one seeded sender, each of an amount
\* the seeded balance covers, have all returned without a store failure, at
\* least one of them succeeded and every other one either succeeded or was
\* refused for insufficient balance; and the step that refuses a transfer
\* for insufficient balance is taken by a transfer that holds its sender's
\* lock while the sender's committed balance is below its amount.
C34_RacingDebitsNotAllRefused ==
    /\ [] ( \A x \in DOMAIN seeded :
              ( /\ RacingFrom(x)
                /\ \A t \in Called : pc[t] \in Terminal /\ ~FailedWith(t, ErrStore)
                /\ \A t \in Called : AmountIsValid(t)
                /\ \A t \in Called : AmountOf(t) <= seeded[x] )
              => /\ \E t \in Called : Succeeded(t)
                 /\ \A t \in Called :
                       Succeeded(t) \/ FailedWith(t, ErrInsufficient) )
    /\ [][ \A t \in Workers :
             (pc[t] = "readSender" /\ pc'[t] = "failed"
                 /\ result'[t].err = ErrInsufficient)
             => /\ lockHolder[hashAddress(call[t].from)] = t
                /\ call[t].from \in DOMAIN wallets
                /\ wallets[call[t].from] < AmountOf(t) ]_vars

\* of two overlapping transfers from one sender to two other accounts, each
\* covered by the seeded balance alone, one succeeded and the other was
\* refused
C34_Witness ==
    \E x \in DOMAIN seeded :
        /\ RacingFrom(x)
        /\ \A t \in Called : AmountIsValid(t) /\ AddressesValid(t)
        /\ \A t \in Called : AmountOf(t) <= seeded[x]
        /\ \E t \in Called, u \in Called :
              /\ call[t].to # call[u].to
              /\ Succeeded(t) /\ FailedWith(u, ErrInsufficient)

\* the error of the first rule an amount of this kind and shape breaks, in
\* the order unparsable, non-positive, decimal places, digits
FirstViolatedRule(kind, i, f) ==
    LET total == IF i = 0 THEN 1 ELSE i + f
    IN  IF kind = "unparsable" THEN ErrInvalidDecimal
        ELSE IF kind \in {"negative", "zero"} THEN ErrNonPositive
        ELSE IF f > 18 THEN ErrTooManyDecimals
        ELSE IF total > 28 THEN ErrTooManyDigits
        ELSE NoError

\* C35: validation returns the error of the first rule the amount breaks, in
\* the order unparsable, non-positive, too many decimal places, too many
\* digits, and lets the transfer go on exactly when the amount breaks none.
C35_FirstViolatedRuleReported ==
    \A t \in Workers, kind \in AmountKinds :
        \A sh \in Shapes(kind) :
            ( /\ pc[t] \notin {"idle", "validate"}
              /\ call[t].amount = AmountOfKind(kind, sh[1], sh[2]) )
            => LET err == FirstViolatedRule(kind, sh[1], sh[2])
               IN  IF err = NoError
                   THEN pc[t] = "lock1"
                   ELSE FailedWith(t, err)

\* an amount of 20 integer and 19 fraction digits was refused for its decimal
\* places
C35_Witness ==
    \E t \in Workers :
        /\ call[t].amount = AmountOfKind("positive", 20, 19)
        /\ FailedWith(t, ErrTooManyDecimals)

\* C36: the step at which a transfer fails, for a reason other than the
\* store, reports the first check of the algorithm that does not pass: the
\* amount's validation error when the amount is invalid, whether or not the
\* sender has a row; else sql.ErrNoRows when the sender has no row, whatever
\* the amount; else insufficient balance, with the sender's committed balance
\* below the amount and no row written for the recipient.  A transfer whose
\* amount is invalid, or whose sender has no row, goes no further than that
\* check.
C36_FirstFailingCheckDecides ==
    [][ \A t \in Workers :
          /\ (pc[t] \in InFlight /\ pc'[t] = "failed" /\ result'[t].err # ErrStore)
                => IF ~AmountIsValid(t)
                   THEN /\ pc[t] = "validate"
                        /\ result'[t].err = validateTokenAmount(call[t].amount)
                   ELSE IF call[t].from \notin DOMAIN wallets
                   THEN /\ pc[t] = "readSender"
                        /\ result'[t].err = ErrNoRows
                   ELSE /\ pc[t] = "readSender"
                        /\ result'[t].err = ErrInsufficient
                        /\ wallets[call[t].from] < AmountOf(t)
                        /\ txWrites[t] = NoRows
                        /\ call[t].to \notin DOMAIN wallets
                              => call[t].to \notin DOMAIN wallets'
          /\ (pc[t] = "validate" /\ pc'[t] # "validate" /\ ~AmountIsValid(t))
                => pc'[t] = "failed"
          /\ (pc[t] = "readSender" /\ pc'[t] # "readSender"
                 /\ call[t].from \notin DOMAIN wallets)
                => pc'[t] = "failed" ]_vars

\* a transfer from an address without a row, of more than any account
\* holds, returned sql.ErrNoRows, and an underfunded transfer to an address
\* without a row was refused and left no row for it
C36_Witness ==
    \E t \in Workers, u \in Workers :
        /\ FailedWith(t, ErrNoRows)
        /\ call[t].from \notin DOMAIN wallets
        /\ \A a \in DOMAIN wallets : wallets[a] < AmountOf(t)
        /\ FailedWith(u, ErrInsufficient)
        /\ call[u].to \notin DOMAIN wallets

C38_SenderRowStableUntilDebit ==
    \A t \in Workers :
        /\ pc[t] \in {"readRecipient", "addWallet", "debit"}
              => /\ call[t].from \in DOMAIN wallets
                 /\ wallets[call[t].from] = senderBalance[t]
                 /\ ~WrittenByOther(t, call[t].from)
                 /\ senderBalance[t] >= AmountOf(t)
        /\ pc[t] = "credit"
              => /\ call[t].from \in DOMAIN txWrites[t]
                 /\ txWrites[t][call[t].from] = senderBalance[t] - AmountOf(t)
                 /\ txWrites[t][call[t].from] >= 0
                 /\ wallets[call[t].from] = senderBalance[t]
        /\ ~FailedWith(t, ErrCheckViolation)

\* a transfer of the sender's whole balance has written its debit, leaving
\* 0, while another transfer from the same sender waits for the sender's
\* lock
C38_Witness ==
    \E t \in Workers, u \in Workers :
        /\ t # u
        /\ pc[t] = "credit"
        /\ AddressesValid(t) /\ AddressesValid(u)
        /\ call[u].from = call[t].from
        /\ txWrites[t][call[t].from] = 0
        /\ pc[u] \in {"lock1", "lock2"}
        /\ Blockers(u) = {t}
        /\ AmountIsValid(u)

====
